---- MODULE Spec2Model ----
(***************************************************************************)
(* One connection of the loqui server, as driven through                   *)
(* ConnectionHandler (connection_handler.rs): the upgrade stage, the       *)
(* handshake stage with its capability negotiation, and the steady-state   *)
(* frame dispatch with its per-request futures and detached push tasks.    *)
(***************************************************************************)
EXTENDS Integers, Sequences, FiniteSets, TLC

VARIABLES
    config,           \* Config: ping_interval (a Duration)
    pc,               \* position of the connection task
    upgradeReads,     \* frames the upgrade stage has read
    handshakeReads,   \* frames the handshake stage has read
    sent,             \* frames written to the peer, in order
    upItem,           \* what reader.next() yielded to the upgrade stage
    upWrite,          \* what writer.send(UpgradeFrame::Response) yielded
    hsItem,           \* what reader.next() yielded to the handshake stage
    hsWrite,          \* what reader_writer.write(hello_ack) yielded
    pending,          \* (ready, hello_ack) between validation and the write
    upgradeResult,    \* output of the upgrade future
    handshakeResult,  \* output of the handshake future
    ready,            \* the Ready the driver holds in steady state
    tasks,            \* request futures returned by handle_frame, in dispatch order
    pushes,           \* push tasks spawned by handle_frame, in dispatch order
    completed,        \* outputs of the request futures, in completion order
    lastReturn,       \* what the latest handle_frame call returned
    dispatched,       \* number of frames given to handle_frame
    candidates,       \* candidate lists given to the negotiation functions
    negotiated        \* what the negotiation functions returned for them

upgradeVars == <<upgradeReads, upItem, upWrite, upgradeResult>>
handshakeVars == <<handshakeReads, hsItem, hsWrite, pending, handshakeResult>>
steadyVars == <<ready, tasks, pushes, completed, lastReturn, dispatched>>
negotiationVars == <<candidates, negotiated>>

vars == <<config, pc, sent, upgradeVars, handshakeVars, steadyVars,
          negotiationVars>>

----------------------------------------------------------------------------
(* Bounds of the model *)

\* longest encodings / compressions list a Hello carries
MaxCandidates == 2
\* frames given to handle_frame on one connection
MaxFrames == 2

----------------------------------------------------------------------------
(* Option and Result values *)

None == [some |-> FALSE]
Some(x) == [some |-> TRUE, val |-> x]
Ok(x) == [ok |-> TRUE, val |-> x]
Err(e) == [ok |-> FALSE, err |-> e]

\* what a future that has not resolved yet holds
Unresolved == [resolved |-> FALSE]
Resolved(r) == [resolved |-> TRUE, out |-> r]

----------------------------------------------------------------------------
(* Protocol constants and frames (loqui_protocol) *)

VERSION == 1

HelloOpcode == 1

opcode(frame) ==
    CASE frame.kind = "Hello"    -> 1
      [] frame.kind = "HelloAck" -> 2
      [] frame.kind = "Ping"     -> 3
      [] frame.kind = "Pong"     -> 4
      [] frame.kind = "Request"  -> 5
      [] frame.kind = "Response" -> 6
      [] frame.kind = "Push"     -> 7
      [] frame.kind = "GoAway"   -> 8
      [] frame.kind = "Error"    -> 9

\* names a peer may put in its candidate lists
EncodingNames == {"json", "msgpack", "xml"}
CompressionNames == {"gzip", "zstd", "lz4"}

\* the local registry (EncoderFactory)
SupportedEncodings == {"json", "msgpack"}
SupportedCompressions == {"gzip", "zstd"}

find_encoding(name) ==
    IF name \in SupportedEncodings THEN Some(name) ELSE None

find_compression(name) ==
    IF name \in SupportedCompressions THEN Some(name) ELSE None

SeqsUpTo(S, n) == UNION {[1..k -> S] : k \in 0..n}

----------------------------------------------------------------------------
(* Duration (std::time::Duration) and its narrowing to u32 milliseconds.   *)
(* A millisecond count is kept as two limbs, hi * 2^16 + lo, so that       *)
(* counts at and above 2^32 are representable.                             *)

Limb == 65536

\* Duration::as_millis: secs * 1000 + nanos / 1_000_000
as_millis(d) ==
    LET s1 == d.secs \div Limb
        s0 == d.secs % Limb
        t  == s0 * 1000 + (d.nanos \div 1000000)
    IN  [hi |-> s1 * 1000 + (t \div Limb), lo |-> t % Limb]

\* `as u32`: keeps the low 32 bits
as_u32(m) == [hi |-> m.hi % Limb, lo |-> m.lo]

----------------------------------------------------------------------------
(* Capability negotiation *)

RECURSIVE EncodingFrom(_, _)
EncodingFrom(client_encodings, i) ==
    IF i > Len(client_encodings)
    THEN Err([name |-> "NoCommonEncoding"])
    ELSE IF find_encoding(client_encodings[i]).some
         THEN Ok(find_encoding(client_encodings[i]).val)
         ELSE EncodingFrom(client_encodings, i + 1)

\* negotiate_encoding scanning the local registry instead of the peer's list
negotiate_encoding_local_order(client_encodings) ==
    LET offered == {client_encodings[i] : i \in 1..Len(client_encodings)} IN
    IF "json" \in offered THEN Ok("json")
    ELSE IF "msgpack" \in offered THEN Ok("msgpack")
         ELSE Err([name |-> "NoCommonEncoding"])

negotiate_encoding(client_encodings) == EncodingFrom(client_encodings, 1)

RECURSIVE CompressionFrom(_, _)
CompressionFrom(client_compressions, i) ==
    IF i > Len(client_compressions)
    THEN Err([name |-> "NoCommonCompression"])
    ELSE IF find_compression(client_compressions[i]).some
         THEN Ok(Some(find_compression(client_compressions[i]).val))
         ELSE CompressionFrom(client_compressions, i + 1)

\* negotiate_compression without its check for an empty list
negotiate_compression_no_empty_check(client_compressions) ==
    CompressionFrom(client_compressions, 1)

negotiate_compression(client_compressions) ==
    IF Len(client_compressions) = 0
    THEN Ok(None)
    ELSE CompressionFrom(client_compressions, 1)

----------------------------------------------------------------------------
(* Handshake validation *)

\* Accept advertising no compression whatever was negotiated
Accept_ack_without_compression(hello, ping_interval, encoding, compression) ==
    Ok([hello_ack |->
           [kind |-> "HelloAck",
            flags |-> hello.flags,
            ping_interval_ms |-> as_u32(as_millis(ping_interval)),
            encoding |-> encoding,
            compression |-> None],
        ready |->
           [ping_interval |-> ping_interval,
            transport_options |->
               [encoding |-> encoding, compression |-> compression]]])

\* the (hello_ack, ready) pair of a Hello that negotiated to encoding and
\* compression
Accept(hello, ping_interval, encoding, compression) ==
    Ok([hello_ack |->
           [kind |-> "HelloAck",
            flags |-> hello.flags,
            ping_interval_ms |-> as_u32(as_millis(ping_interval)),
            encoding |-> encoding,
            compression |-> compression],
        ready |->
           [ping_interval |-> ping_interval,
            transport_options |->
               [encoding |-> encoding, compression |-> compression]]])

\* handle_handshake_hello without its version check
handle_handshake_hello_any_version(hello, ping_interval) ==
    LET encoding == negotiate_encoding(hello.encodings) IN
    IF ~encoding.ok THEN encoding
    ELSE LET compression == negotiate_compression(hello.compressions) IN
         IF ~compression.ok THEN compression
         ELSE Accept(hello, ping_interval, encoding.val, compression.val)

\* handle_handshake_hello checking the version after the negotiation
handle_handshake_hello_version_last(hello, ping_interval) ==
    LET encoding == negotiate_encoding(hello.encodings) IN
    IF ~encoding.ok THEN encoding
    ELSE LET compression == negotiate_compression(hello.compressions) IN
         IF ~compression.ok THEN compression
         ELSE IF hello.version # VERSION
              THEN Err([name |-> "UnsupportedVersion", expected |-> VERSION,
                        actual |-> hello.version])
              ELSE Accept(hello, ping_interval, encoding.val, compression.val)

\* handle_handshake_hello negotiating the compression before the encoding
handle_handshake_hello_compression_first(hello, ping_interval) ==
    IF hello.version # VERSION
    THEN Err([name |-> "UnsupportedVersion", expected |-> VERSION,
              actual |-> hello.version])
    ELSE LET compression == negotiate_compression(hello.compressions) IN
         IF ~compression.ok THEN compression
         ELSE LET encoding == negotiate_encoding(hello.encodings) IN
              IF ~encoding.ok THEN encoding
              ELSE Accept(hello, ping_interval, encoding.val, compression.val)

handle_handshake_hello(hello, ping_interval) ==
    IF hello.version # VERSION
    THEN Err([name |-> "UnsupportedVersion", expected |-> VERSION,
              actual |-> hello.version])
    ELSE LET encoding == negotiate_encoding(hello.encodings) IN
         IF ~encoding.ok THEN encoding
         ELSE LET compression == negotiate_compression(hello.compressions) IN
              IF ~compression.ok THEN compression
              ELSE Accept(hello, ping_interval, encoding.val, compression.val)

\* handle_handshake_frame with actual and expected opcode exchanged
handle_handshake_frame_swapped(frame, ping_interval) ==
    IF frame.kind = "Hello"
    THEN handle_handshake_hello(frame, ping_interval)
    ELSE IF frame.kind = "GoAway"
         THEN Err([name |-> "ToldToGoAway", go_away |-> frame])
         ELSE Err([name |-> "InvalidOpcode", actual |-> HelloOpcode,
                   expected |-> Some(opcode(frame))])

handle_handshake_frame(frame, ping_interval) ==
    IF frame.kind = "Hello"
    THEN handle_handshake_hello(frame, ping_interval)
    ELSE IF frame.kind = "GoAway"
         THEN Err([name |-> "ToldToGoAway", go_away |-> frame])
         ELSE Err([name |-> "InvalidOpcode", actual |-> opcode(frame),
                   expected |-> Some(HelloOpcode)])

----------------------------------------------------------------------------
(* The streams *)

TcpStream == [stream |-> "tcp"]
ReaderWriter == [stream |-> "framed"]

\* errors the transport (socket or byte codec) may report
TransportErrors == {[name |-> "Io", kind |-> "ConnectionReset"],
                    [name |-> "Io", kind |-> "BrokenPipe"]}

\* what reader.next() may yield: a frame, a transport error, or the end
ReadItems(frames) ==
    {Some(Ok(f)) : f \in frames} \cup {Some(Err(e)) : e \in TransportErrors}
        \cup {None}

\* what a write may yield
WriteResults == {Ok("written")} \cup {Err(e) : e \in TransportErrors}

----------------------------------------------------------------------------
(* Upgrade stage *)

UpgradeFrames == {[kind |-> "UpgradeRequest"], [kind |-> "UpgradeResponse"]}

\* upgrade_read reporting a read error as a closed stream
upgrade_read_error_as_closed(item) ==
    IF item.some /\ item.val.ok
    THEN IF item.val.val.kind = "UpgradeRequest"
         THEN [write |-> TRUE]
         ELSE [write |-> FALSE,
               out |-> Err([name |-> "InvalidUpgradeFrame",
                            frame |-> item.val.val])]
    ELSE [write |-> FALSE, out |-> Err([name |-> "TcpStreamClosed"])]

\* the match on reader.next(): either the stage goes on to its write, or it
\* is over with a failure
upgrade_read(item) ==
    IF item.some
    THEN IF item.val.ok
         THEN IF item.val.val.kind = "UpgradeRequest"
              THEN [write |-> TRUE]
              ELSE [write |-> FALSE,
                    out |-> Err([name |-> "InvalidUpgradeFrame",
                                 frame |-> item.val.val])]
         ELSE [write |-> FALSE, out |-> Err(item.val.err)]
    ELSE [write |-> FALSE, out |-> Err([name |-> "TcpStreamClosed"])]

\* upgrade_write handing back the stream although the write failed
upgrade_write_ignores_error(w) == Ok(TcpStream)

\* the match on writer.send(UpgradeFrame::Response)
upgrade_write(w) ==
    IF w.ok THEN Ok(TcpStream) ELSE Err(w.err)

----------------------------------------------------------------------------
(* Handshake stage *)

\* handshake_read giving up the stream when the read fails or the stream ends
handshake_read_drops_stream(item, reader_writer, ping_interval) ==
    IF item.some
    THEN IF item.val.ok
         THEN LET r == handle_handshake_frame(item.val.val, ping_interval) IN
              IF r.ok
              THEN [write |-> TRUE, ready |-> r.val.ready,
                    hello_ack |-> r.val.hello_ack]
              ELSE [write |-> FALSE,
                    out |-> Err([error |-> r.err, stream |-> Some(reader_writer)])]
         ELSE [write |-> FALSE,
               out |-> Err([error |-> item.val.err, stream |-> None])]
    ELSE [write |-> FALSE,
          out |-> Err([error |-> [name |-> "TcpStreamClosed"], stream |-> None])]

\* the match on reader_writer.reader.next()
handshake_read(item, reader_writer, ping_interval) ==
    IF item.some
    THEN IF item.val.ok
         THEN LET r == handle_handshake_frame(item.val.val, ping_interval) IN
              IF r.ok
              THEN [write |-> TRUE, ready |-> r.val.ready,
                    hello_ack |-> r.val.hello_ack]
              ELSE [write |-> FALSE,
                    out |-> Err([error |-> r.err, stream |-> Some(reader_writer)])]
         ELSE [write |-> FALSE,
               out |-> Err([error |-> item.val.err,
                            stream |-> Some(reader_writer)])]
    ELSE [write |-> FALSE,
          out |-> Err([error |-> [name |-> "TcpStreamClosed"],
                       stream |-> Some(reader_writer)])]

\* handshake_write handing the stream back when the write fails
handshake_write_returns_stream(w, rdy, reader_writer) ==
    IF w.ok
    THEN Ok([ready |-> rdy, reader_writer |-> reader_writer])
    ELSE Err([error |-> w.err, stream |-> Some(reader_writer)])

\* the match on reader_writer.write(hello_ack)
handshake_write(w, rdy, reader_writer) ==
    IF w.ok
    THEN Ok([ready |-> rdy, reader_writer |-> reader_writer])
    ELSE Err([error |-> w.err, stream |-> None])

----------------------------------------------------------------------------
(* Application codec (Encoder) and the frames of the steady state *)

\* payload bytes and decoded values; payload 0 does not decode and the
\* value 100 does not encode
Payloads == {0, 1, 2}
DomainValues == {100, 101, 102}

decode(payload) ==
    IF payload = 0 THEN Err([name |-> "DecodeError"])
    ELSE Ok(payload + 100)

encode(value) ==
    IF value = 100 THEN Err([name |-> "EncodeError"])
    ELSE Ok(value - 100)

SequenceIds == {3, 7}
FrameFlags == {0, 1}

RequestFrames ==
    {[kind |-> "Request", payload |-> p, flags |-> f, sequence_id |-> s] :
        p \in Payloads, f \in FrameFlags, s \in SequenceIds}

PushFrames == {[kind |-> "Push", payload |-> p, flags |-> 0] : p \in Payloads}

DelegatedFrames ==
    RequestFrames \cup PushFrames
        \cup {[kind |-> "Error", flags |-> 0, sequence_id |-> 3, code |-> 1,
               payload |-> 1],
              [kind |-> "Response", flags |-> 0, sequence_id |-> 3,
               payload |-> 1]}

----------------------------------------------------------------------------
(* Steady-state dispatch *)

\* handle_frame treating an inbound Response as a Request
handle_frame_response_as_request(frame) ==
    IF frame.kind = "Push"
    THEN [spawn |-> Some(frame), future |-> None]
    ELSE IF frame.kind \in {"Request", "Response"}
         THEN [spawn |-> None, future |-> Some(frame)]
         ELSE [spawn |-> None, future |-> None]

\* handle_frame: what it spawns and what it returns
handle_frame(frame) ==
    IF frame.kind = "Push"
    THEN [spawn |-> Some(frame), future |-> None]
    ELSE IF frame.kind = "Request"
         THEN [spawn |-> None, future |-> Some(frame)]
         ELSE [spawn |-> None, future |-> None]

\* handle_push calling the handler although the payload did not decode
handle_push_always_calls(push) ==
    LET d == decode(push.payload) IN
    IF d.ok THEN Some(d.val) ELSE Some(100)

\* handle_push: the value handed to request_handler.handle_push, if any
handle_push(push) ==
    LET d == decode(push.payload) IN
    IF d.ok THEN Some(d.val) ELSE None

\* handle_request_decode with the sequence id lost from the error
handle_request_decode_no_id(request) ==
    LET d == decode(request.payload) IN
    IF d.ok
    THEN [await |-> TRUE, call |-> Some(d.val)]
    ELSE [await |-> FALSE, call |-> None,
          out |-> Err([error |-> d.err, sequence_id |-> 0])]

\* handle_request up to its await: either it resolves with the decode error,
\* or it calls request_handler.handle_request with the decoded value
handle_request_decode(request) ==
    LET d == decode(request.payload) IN
    IF d.ok
    THEN [await |-> TRUE, call |-> Some(d.val)]
    ELSE [await |-> FALSE, call |-> None,
          out |-> Err([error |-> d.err, sequence_id |-> request.sequence_id])]

\* handle_request_encode echoing the request's flags into the response
handle_request_encode_echo_flags(request, response) ==
    LET p == encode(response) IN
    IF p.ok
    THEN Ok([kind |-> "Response", flags |-> request.flags,
             sequence_id |-> request.sequence_id, payload |-> p.val])
    ELSE Err([error |-> p.err, sequence_id |-> request.sequence_id])

\* handle_request_encode taking the sequence id of the latest dispatched
\* request instead of its own
handle_request_encode_latest_id(request, response) ==
    LET p == encode(response)
        latest == tasks[Len(tasks)].request.sequence_id
    IN  IF p.ok
        THEN Ok([kind |-> "Response", flags |-> 0,
                 sequence_id |-> latest, payload |-> p.val])
        ELSE Err([error |-> p.err, sequence_id |-> latest])

\* handle_request after its await, given the handler's response
handle_request_encode(request, response) ==
    LET p == encode(response) IN
    IF p.ok
    THEN Ok([kind |-> "Response", flags |-> 0,
             sequence_id |-> request.sequence_id, payload |-> p.val])
    ELSE Err([error |-> p.err, sequence_id |-> request.sequence_id])

----------------------------------------------------------------------------
(* Initial state *)

PingIntervals == {[secs |-> 30, nanos |-> 0],
                  [secs |-> 4294967, nanos |-> 301999999]}

HelloFrames ==
    {[kind |-> "Hello", flags |-> f, version |-> v, encodings |-> e,
      compressions |-> c] :
        f \in FrameFlags, v \in {0, VERSION, VERSION + 1},
        e \in SeqsUpTo(EncodingNames, MaxCandidates),
        c \in SeqsUpTo(CompressionNames, MaxCandidates)}

GoAwayFrames ==
    {[kind |-> "GoAway", flags |-> 0, code |-> c, payload |-> 0] : c \in {0, 1}}

OtherFrames ==
    {[kind |-> "HelloAck", flags |-> 0, ping_interval_ms |-> [hi |-> 0, lo |-> 1],
      encoding |-> "json", compression |-> None],
     [kind |-> "Ping", flags |-> 0, sequence_id |-> 3],
     [kind |-> "Pong", flags |-> 0, sequence_id |-> 3]}
        \cup {f \in RequestFrames : f.sequence_id = 3 /\ f.payload = 1 /\ f.flags = 0}
        \cup {f \in PushFrames : f.payload = 1}
        \cup {f \in DelegatedFrames : f.kind \in {"Error", "Response"}}

LoquiFrames == HelloFrames \cup GoAwayFrames \cup OtherFrames

\* the handshake frames of the whole-connection specification: one Hello per
\* version, and every frame that is not a Hello
SampleFrames ==
    {f \in LoquiFrames :
        f.kind = "Hello" =>
            f.flags = 1 /\ f.encodings = <<"msgpack">> /\ f.compressions = <<>>}

\* a freshly accepted connection: nothing read, written or dispatched
Accepted ==
    /\ pc = "upgrade_read"
    /\ upgradeReads = 0
    /\ handshakeReads = 0
    /\ sent = <<>>
    /\ upItem = None
    /\ upWrite = None
    /\ hsItem = None
    /\ hsWrite = None
    /\ pending = None
    /\ upgradeResult = Unresolved
    /\ handshakeResult = Unresolved
    /\ ready = None
    /\ tasks = <<>>
    /\ pushes = <<>>
    /\ completed = <<>>
    /\ lastReturn = None
    /\ dispatched = 0

Init ==
    /\ config = [ping_interval |-> [secs |-> 30, nanos |-> 0]]
    /\ Accepted
    /\ candidates = None
    /\ negotiated = None

----------------------------------------------------------------------------
(* Upgrade and handshake steps *)

UpgradeRead ==
    /\ pc = "upgrade_read"
    /\ \E item \in ReadItems(UpgradeFrames) :
          LET r == upgrade_read(item) IN
          /\ upgradeReads' = upgradeReads + 1
          /\ upItem' = Some(item)
          /\ IF r.write
             THEN pc' = "upgrade_write" /\ UNCHANGED upgradeResult
             ELSE pc' = "upgrade_done" /\ upgradeResult' = Resolved(r.out)
    /\ UNCHANGED <<config, sent, upWrite, handshakeVars, steadyVars,
                   negotiationVars>>

UpgradeWrite ==
    /\ pc = "upgrade_write"
    /\ \E w \in WriteResults :
          /\ upWrite' = Some(w)
          /\ sent' = IF w.ok THEN Append(sent, [kind |-> "UpgradeResponse"])
                     ELSE sent
          /\ upgradeResult' = Resolved(upgrade_write(w))
    /\ pc' = "upgrade_done"
    /\ UNCHANGED <<config, upgradeReads, upItem, handshakeVars, steadyVars,
                   negotiationVars>>

HandshakeRead(frames) ==
    /\ pc = "handshake_read"
    /\ \E item \in ReadItems(frames) :
          LET r == handshake_read(item, ReaderWriter, config.ping_interval) IN
          /\ handshakeReads' = handshakeReads + 1
          /\ hsItem' = Some(item)
          /\ IF r.write
             THEN /\ pc' = "handshake_write"
                  /\ pending' = Some([ready |-> r.ready, hello_ack |-> r.hello_ack])
                  /\ UNCHANGED handshakeResult
             ELSE /\ pc' = "handshake_done"
                  /\ handshakeResult' = Resolved(r.out)
                  /\ UNCHANGED pending
    /\ UNCHANGED <<config, sent, hsWrite, upgradeVars, steadyVars,
                   negotiationVars>>

HandshakeWrite ==
    /\ pc = "handshake_write"
    /\ \E w \in WriteResults :
          /\ hsWrite' = Some(w)
          /\ sent' = IF w.ok THEN Append(sent, pending.val.hello_ack) ELSE sent
          /\ handshakeResult' =
                Resolved(handshake_write(w, pending.val.ready, ReaderWriter))
    /\ pc' = "handshake_done"
    /\ UNCHANGED <<config, handshakeReads, hsItem, pending, upgradeVars,
                   steadyVars, negotiationVars>>

----------------------------------------------------------------------------
(* The connection driver: runs the stages in order *)

\* DriverStartHandshake going on to the handshake whatever the upgrade gave
DriverStartHandshake_unchecked ==
    /\ pc = "upgrade_done"
    /\ pc' = "handshake_read"
    /\ UNCHANGED <<config, sent, upgradeVars, handshakeVars, steadyVars,
                   negotiationVars>>

DriverStartHandshake ==
    /\ pc = "upgrade_done"
    /\ upgradeResult.out.ok
    /\ pc' = "handshake_read"
    /\ UNCHANGED <<config, sent, upgradeVars, handshakeVars, steadyVars,
                   negotiationVars>>

DriverStartSteady ==
    /\ pc = "handshake_done"
    /\ handshakeResult.out.ok
    /\ ready' = Some(handshakeResult.out.val.ready)
    /\ pc' = "steady"
    /\ UNCHANGED <<config, sent, upgradeVars, handshakeVars, tasks, pushes,
                   completed, lastReturn, dispatched, negotiationVars>>

DriverClose ==
    /\ \/ pc = "upgrade_done" /\ ~upgradeResult.out.ok
       \/ pc = "handshake_done" /\ ~handshakeResult.out.ok
    /\ pc' = "closed"
    /\ UNCHANGED <<config, sent, upgradeVars, handshakeVars, steadyVars,
                   negotiationVars>>

----------------------------------------------------------------------------
(* Steady state *)

\* some request future is suspended in request_handler.handle_request
HandlerSuspended == \E i \in 1..Len(tasks) : tasks[i].state = "awaiting"

HandleFrame ==
    /\ pc = "steady"
    /\ dispatched < MaxFrames
    /\ \E frame \in DelegatedFrames :
          LET r == handle_frame(frame) IN
          /\ pushes' = IF r.spawn.some
                       THEN Append(pushes, [push |-> r.spawn.val,
                                            state |-> "spawned",
                                            call |-> None])
                       ELSE pushes
          /\ tasks' = IF r.future.some
                      THEN Append(tasks, [request |-> r.future.val,
                                          state |-> "created",
                                          call |-> None,
                                          response |-> None,
                                          out |-> Unresolved,
                                          overlapped |-> HandlerSuspended])
                      ELSE tasks
          /\ lastReturn' = Some([frame |-> frame,
                                 future |-> IF r.future.some
                                            THEN Some(Len(tasks) + 1) ELSE None])
    /\ dispatched' = dispatched + 1
    /\ UNCHANGED <<config, pc, sent, upgradeVars, handshakeVars, ready,
                   completed, negotiationVars>>

\* PollRequest going on to the handler call after reporting a decode failure
PollRequest_continues(i) ==
    /\ pc = "steady"
    /\ tasks[i].state = "created"
    /\ LET r == handle_request_decode(tasks[i].request) IN
       IF r.await
       THEN /\ tasks' = [tasks EXCEPT ![i].state = "awaiting", ![i].call = r.call]
            /\ UNCHANGED completed
       ELSE /\ tasks' = [tasks EXCEPT ![i].state = "awaiting",
                                      ![i].out = Resolved(r.out)]
            /\ completed' = Append(completed, [task |-> i, out |-> r.out])
    /\ UNCHANGED <<config, pc, sent, upgradeVars, handshakeVars, ready, pushes,
                   lastReturn, dispatched, negotiationVars>>

\* PollRequest with a decode failure treated as fatal to the connection
PollRequest_fatal(i) ==
    /\ pc = "steady"
    /\ tasks[i].state = "created"
    /\ LET r == handle_request_decode(tasks[i].request) IN
       IF r.await
       THEN /\ tasks' = [tasks EXCEPT ![i].state = "awaiting", ![i].call = r.call]
            /\ UNCHANGED <<completed, pc>>
       ELSE /\ tasks' = [tasks EXCEPT ![i].state = "done", ![i].call = r.call,
                                      ![i].out = Resolved(r.out)]
            /\ completed' = Append(completed, [task |-> i, out |-> r.out])
            /\ pc' = "closed"
    /\ UNCHANGED <<config, sent, upgradeVars, handshakeVars, ready, pushes,
                   lastReturn, dispatched, negotiationVars>>

\* the first poll of a request future: decode, then call the handler
PollRequest(i) ==
    /\ pc = "steady"
    /\ tasks[i].state = "created"
    /\ LET r == handle_request_decode(tasks[i].request) IN
       IF r.await
       THEN /\ tasks' = [tasks EXCEPT ![i].state = "awaiting", ![i].call = r.call]
            /\ UNCHANGED completed
       ELSE /\ tasks' = [tasks EXCEPT ![i].state = "done", ![i].call = r.call,
                                      ![i].out = Resolved(r.out)]
            /\ completed' = Append(completed, [task |-> i, out |-> r.out])
    /\ UNCHANGED <<config, pc, sent, upgradeVars, handshakeVars, ready, pushes,
                   lastReturn, dispatched, negotiationVars>>

\* request_handler.handle_request completes and the future runs to its end
HandlerReturns(i) ==
    /\ pc = "steady"
    /\ tasks[i].state = "awaiting"
    /\ \E response \in DomainValues :
          LET out == handle_request_encode(tasks[i].request, response) IN
          /\ tasks' = [tasks EXCEPT ![i].state = "done",
                                    ![i].response = Some(response),
                                    ![i].out = Resolved(out)]
          /\ completed' = Append(completed, [task |-> i, out |-> out])
    /\ UNCHANGED <<config, pc, sent, upgradeVars, handshakeVars, ready, pushes,
                   lastReturn, dispatched, negotiationVars>>

\* the runtime runs a spawned push task
RunPush(k) ==
    /\ pc = "steady"
    /\ pushes[k].state = "spawned"
    /\ pushes' = [pushes EXCEPT ![k].state = "done",
                                ![k].call = handle_push(pushes[k].push)]
    /\ UNCHANGED <<config, pc, sent, upgradeVars, handshakeVars, ready, tasks,
                   completed, lastReturn, dispatched, negotiationVars>>

Next ==
    \/ UpgradeRead
    \/ UpgradeWrite
    \/ HandshakeRead(SampleFrames)
    \/ HandshakeWrite
    \/ DriverStartHandshake
    \/ DriverStartSteady
    \/ DriverClose
    \/ HandleFrame
    \/ \E i \in 1..Len(tasks) : PollRequest(i)
    \/ \E i \in 1..Len(tasks) : HandlerReturns(i)
    \/ \E k \in 1..Len(pushes) : RunPush(k)

\* one whole connection, its handshake drawn from SampleFrames
Spec == Init /\ [][Next]_vars

\* one whole connection whose request futures are polled by the driver and
\* whose request handler completes every call
LiveSpec ==
    /\ Init
    /\ [][Next]_vars
    /\ \A i \in 1..MaxFrames :
          /\ WF_vars(i <= Len(tasks) /\ PollRequest(i))
          /\ WF_vars(i <= Len(tasks) /\ HandlerReturns(i))

----------------------------------------------------------------------------
(* The upgrade and handshake stages over every handshake frame and every   *)
(* configured ping interval                                                *)

HandshakeInit ==
    /\ config \in {[ping_interval |-> d] : d \in PingIntervals}
    /\ Accepted
    /\ candidates = None
    /\ negotiated = None

HandshakeNext ==
    \/ UpgradeRead
    \/ UpgradeWrite
    \/ HandshakeRead(LoquiFrames)
    \/ HandshakeWrite
    \/ DriverStartHandshake
    \/ DriverStartSteady
    \/ DriverClose

HandshakeSpec == HandshakeInit /\ [][HandshakeNext]_vars

----------------------------------------------------------------------------
(* The negotiation functions on their own *)

NegotiationInit ==
    /\ config = [ping_interval |-> [secs |-> 30, nanos |-> 0]]
    /\ Accepted
    /\ candidates \in
          {Some([encodings |-> e, compressions |-> c]) :
              e \in SeqsUpTo(EncodingNames, MaxCandidates),
              c \in SeqsUpTo(CompressionNames, MaxCandidates)}
    /\ negotiated = None

Negotiate ==
    /\ candidates.some
    /\ ~negotiated.some
    /\ negotiated' =
          Some([encoding |-> negotiate_encoding(candidates.val.encodings),
                compression |->
                    negotiate_compression(candidates.val.compressions)])
    /\ UNCHANGED <<config, pc, sent, upgradeVars, handshakeVars, steadyVars,
                   candidates>>

NegotiationSpec == NegotiationInit /\ [][Negotiate]_vars

----------------------------------------------------------------------------
(* Properties of the steady-state dispatcher *)

TaskIds == 1..Len(tasks)

\* the outputs recorded for request future i, in completion order
OutputsOf(i) == SelectSeq(completed, LAMBDA c : c.task = i)

\* C1: a Request with sequence id N whose payload decodes and whose handler
\* result encodes resolves to Response{flags = 0, sequence_id = N,
\* payload = encode(handle_request(decode(payload)))}, the handler having
\* been called with decode(payload); and no Response that is produced
\* carries a sequence id other than that of its own Request.
C1_ResponseEchoesRequest ==
    /\ \A i \in TaskIds :
          LET t == tasks[i] IN
          (t.state = "done" /\ decode(t.request.payload).ok
              /\ t.response.some /\ encode(t.response.val).ok)
          => /\ t.call = Some(decode(t.request.payload).val)
             /\ t.out = Resolved(Ok([kind |-> "Response", flags |-> 0,
                                     sequence_id |-> t.request.sequence_id,
                                     payload |-> encode(t.response.val).val]))
    /\ \A k \in 1..Len(completed) :
          completed[k].out.ok
          => /\ completed[k].out.val.kind = "Response"
             /\ completed[k].out.val.sequence_id =
                   tasks[completed[k].task].request.sequence_id

\* a request with flags 1 and sequence id 7 has resolved to its Response
C1_Witness ==
    \E i \in TaskIds :
        /\ tasks[i].request.flags = 1
        /\ tasks[i].request.sequence_id = 7
        /\ tasks[i].request.payload = 2
        /\ tasks[i].response = Some(101)
        /\ tasks[i].out = Resolved(Ok([kind |-> "Response", flags |-> 0,
                                       sequence_id |-> 7, payload |-> 1]))

\* the future of request i has run to its end, its payload having decoded
\* and its handler's result encoding
Succeeded(i) ==
    /\ tasks[i].state = "done"
    /\ decode(tasks[i].request.payload).ok
    /\ tasks[i].response.some
    /\ encode(tasks[i].response.val).ok

\* C2: of two Requests with distinct sequence ids dispatched one after the
\* other, whose payloads decode and whose results encode, each yields
\* exactly one output, a Response with its own sequence id, whichever
\* handler completes first.
C2_ConcurrentRequestsKeepIds ==
    \A i, j \in TaskIds :
        (i < j /\ tasks[i].request.sequence_id # tasks[j].request.sequence_id
            /\ Succeeded(i) /\ Succeeded(j))
        => \A n \in {i, j} :
              /\ Len(OutputsOf(n)) = 1
              /\ OutputsOf(n)[1].out.ok
              /\ OutputsOf(n)[1].out.val.kind = "Response"
              /\ OutputsOf(n)[1].out.val.sequence_id =
                    tasks[n].request.sequence_id

\* the second request was dispatched while the handler of the first was
\* suspended, and completed first; both Responses carry their own ids
C2_Witness ==
    /\ Len(tasks) = 2
    /\ tasks[1].request.sequence_id = 3
    /\ tasks[2].request.sequence_id = 7
    /\ tasks[2].overlapped
    /\ Len(completed) = 2
    /\ completed[1].task = 2 /\ completed[1].out.ok
    /\ completed[1].out.val.sequence_id = 7
    /\ completed[2].task = 1 /\ completed[2].out.ok
    /\ completed[2].out.val.sequence_id = 3

\* C3: a Request with sequence id N whose payload does not decode resolves
\* to (decode error, N) without handle_request ever being called for it; one
\* whose handler result does not encode resolves to (encode error, N); and
\* neither produces a Response.
C3_RequestErrorsCarryId ==
    \A i \in TaskIds :
        LET t == tasks[i]
            N == t.request.sequence_id
        IN  /\ ~decode(t.request.payload).ok
               => /\ t.call = None
                  /\ t.state # "awaiting"
                  /\ t.state = "done"
                     => /\ t.out = Resolved(Err([error |-> decode(t.request.payload).err,
                                                 sequence_id |-> N]))
                        /\ OutputsOf(i) = <<[task |-> i, out |-> t.out.out]>>
            /\ (t.response.some /\ ~encode(t.response.val).ok)
               => /\ t.out = Resolved(Err([error |-> encode(t.response.val).err,
                                           sequence_id |-> N]))
                  /\ OutputsOf(i) = <<[task |-> i, out |-> t.out.out]>>

\* one request has failed to decode and another to encode
C3_Witness ==
    \E i, j \in TaskIds :
        /\ tasks[i].request.payload = 0
        /\ tasks[i].request.sequence_id = 7
        /\ tasks[i].out = Resolved(Err([error |-> [name |-> "DecodeError"],
                                        sequence_id |-> 7]))
        /\ tasks[j].response = Some(100)
        /\ tasks[j].request.sequence_id = 3
        /\ tasks[j].out = Resolved(Err([error |-> [name |-> "EncodeError"],
                                        sequence_id |-> 3]))

----------------------------------------------------------------------------
(* Properties of the handshake stage *)

\* the handshake stage has read a frame (not an error, not the end)
HsGotFrame == hsItem.some /\ hsItem.val.some /\ hsItem.val.val.ok
HsFrame == hsItem.val.val.val

\* the HelloAck write was attempted and failed
HsWriteFailed == hsWrite.some /\ ~hsWrite.val.ok

\* a Hello that passes the version, encoding and compression checks
PassesValidation(f) ==
    /\ f.kind = "Hello"
    /\ f.version = VERSION
    /\ \E i \in 1..Len(f.encodings) : f.encodings[i] \in SupportedEncodings
    /\ \/ Len(f.compressions) = 0
       \/ \E i \in 1..Len(f.compressions) :
             f.compressions[i] \in SupportedCompressions

\* C4 (as stated): when the HelloAck write fails, the handshake fails with
\* the write error and the failure carries the stream.
C4_WriteFailureReturnsStream ==
    HsWriteFailed
    => handshakeResult =
          Resolved(Err([error |-> hsWrite.val.err, stream |-> Some(ReaderWriter)]))

\* C4 (amended): when the Hello passes validation and the HelloAck write
\* fails, the handshake fails with the write error and the failure carries
\* no stream.
C4_WriteFailureDropsStream ==
    HsWriteFailed
    => /\ HsGotFrame /\ PassesValidation(HsFrame)
       /\ handshakeResult =
             Resolved(Err([error |-> hsWrite.val.err, stream |-> None]))

\* the write of the HelloAck has failed with a broken pipe
C4_Witness ==
    /\ pc = "handshake_done"
    /\ HsGotFrame /\ PassesValidation(HsFrame)
    /\ hsWrite = Some(Err([name |-> "Io", kind |-> "BrokenPipe"]))
    /\ ~handshakeResult.out.ok
    /\ handshakeResult.out.err.error = [name |-> "Io", kind |-> "BrokenPipe"]

\* C5: a handshake that fails before the HelloAck write is attempted returns
\* the stream with its error: TcpStreamClosed on a clean end, the transport
\* error on a read error, and one of the five frame errors on a frame.
C5_EarlyFailureReturnsStream ==
    (handshakeResult.resolved /\ ~hsWrite.some)
    => /\ ~handshakeResult.out.ok
       /\ handshakeResult.out.err.stream = Some(ReaderWriter)
       /\ ~hsItem.val.some
          => handshakeResult.out.err.error = [name |-> "TcpStreamClosed"]
       /\ (hsItem.val.some /\ ~hsItem.val.val.ok)
          => handshakeResult.out.err.error = hsItem.val.val.err
       /\ HsGotFrame
          => /\ ~PassesValidation(HsFrame)
             /\ handshakeResult.out.err.error.name \in
                   {"UnsupportedVersion", "NoCommonEncoding",
                    "NoCommonCompression", "ToldToGoAway", "InvalidOpcode"}

\* the read failed with a connection reset and the stream came back
C5_Witness ==
    /\ pc = "handshake_done"
    /\ hsItem = Some(Some(Err([name |-> "Io", kind |-> "ConnectionReset"])))
    /\ handshakeResult =
          Resolved(Err([error |-> [name |-> "Io", kind |-> "ConnectionReset"],
                        stream |-> Some(ReaderWriter)]))

\* C6: the handshake stage reads exactly one frame and writes at most one;
\* what it writes is a HelloAck, and only after a Hello that passed the
\* version, encoding and compression checks.
C6_OneReadOneHelloAck ==
    /\ handshakeReads <= 1
    /\ (pc \in {"handshake_write", "handshake_done", "steady"}
           \/ handshakeResult.resolved) => handshakeReads = 1
    /\ hsWrite.some => (HsGotFrame /\ PassesValidation(HsFrame))
    /\ Len(sent) <= 2
    /\ \A k \in 1..Len(sent) :
          IF k = 1 THEN sent[k].kind = "UpgradeResponse"
          ELSE /\ sent[k].kind = "HelloAck"
               /\ hsWrite.some /\ hsWrite.val.ok
               /\ HsGotFrame /\ PassesValidation(HsFrame)

\* a valid Hello was read and its HelloAck written
C6_Witness ==
    /\ pc = "handshake_done"
    /\ handshakeReads = 1
    /\ Len(sent) = 2
    /\ sent[2].kind = "HelloAck"
    /\ sent[2].compression = Some("zstd")
    /\ HsFrame.compressions = <<"lz4", "zstd">>

\* C7: a Hello whose version is not VERSION fails the handshake with
\* UnsupportedVersion{expected = VERSION, actual = its version}, whatever
\* its candidate lists, and no Ready is constructed.
C7_VersionMismatchFails ==
    (HsGotFrame /\ HsFrame.kind = "Hello" /\ HsFrame.version # VERSION)
    => /\ handshakeResult.resolved
       /\ ~handshakeResult.out.ok
       /\ handshakeResult.out.err.error =
             [name |-> "UnsupportedVersion", expected |-> VERSION,
              actual |-> HsFrame.version]
       /\ pending = None
       /\ ready = None

\* a Hello of version 2 with no recognized encoding was refused for its
\* version
C7_Witness ==
    /\ HsGotFrame
    /\ HsFrame.kind = "Hello"
    /\ HsFrame.version = 2
    /\ HsFrame.encodings = <<"xml">>
    /\ HsFrame.compressions = <<"lz4">>
    /\ handshakeResult.resolved
    /\ handshakeResult.out.err.error.name = "UnsupportedVersion"
    /\ handshakeResult.out.err.error.actual = 2

\* C8: a first frame that is not a Hello fails the handshake without a
\* Ready: a GoAway with ToldToGoAway carrying it, any other frame with
\* InvalidOpcode{actual = its opcode, expected = the Hello opcode}.
C8_NonHelloFails ==
    (HsGotFrame /\ HsFrame.kind # "Hello")
    => /\ handshakeResult.resolved
       /\ ~handshakeResult.out.ok
       /\ handshakeResult.out.err.error =
             IF HsFrame.kind = "GoAway"
             THEN [name |-> "ToldToGoAway", go_away |-> HsFrame]
             ELSE [name |-> "InvalidOpcode", actual |-> opcode(HsFrame),
                   expected |-> Some(HelloOpcode)]
       /\ pending = None
       /\ ready = None

\* a Request was read in place of the Hello
C8_Witness ==
    /\ HsGotFrame
    /\ HsFrame.kind = "Request"
    /\ handshakeResult.resolved
    /\ handshakeResult.out.err.error =
          [name |-> "InvalidOpcode", actual |-> 5, expected |-> Some(1)]

----------------------------------------------------------------------------
(* Properties of the negotiation functions *)

\* positions of the candidates the local registry recognizes
Recognized(list, supported) == {i \in 1..Len(list) : list[i] \in supported}

First(S) == CHOOSE i \in S : \A j \in S : i <= j

\* C9: negotiate_encoding returns the first candidate, in the order the
\* peer gave, that the local registry recognizes, and fails with
\* NoCommonEncoding exactly when no candidate is recognized (so also for
\* the empty list).
C9_EncodingIsFirstRecognized ==
    negotiated.some
    => LET list == candidates.val.encodings
           rec == Recognized(list, SupportedEncodings)
           r == negotiated.val.encoding
       IN  /\ rec # {} => r = Ok(list[First(rec)])
           /\ rec = {} => r = Err([name |-> "NoCommonEncoding"])
           /\ ~r.ok <=> (Len(list) = 0 \/ rec = {})

\* with both supported, <<"msgpack", "json">> has selected "msgpack"
C9_Witness ==
    /\ negotiated.some
    /\ candidates.val.encodings = <<"msgpack", "json">>
    /\ negotiated.val.encoding = Ok("msgpack")

\* C10: negotiate_compression succeeds with None exactly for the empty
\* list; for a non-empty list it returns Some of the first recognized
\* candidate in the peer's order, and fails with NoCommonCompression exactly
\* when the list is non-empty and holds no recognized candidate.
C10_CompressionIsOptional ==
    negotiated.some
    => LET list == candidates.val.compressions
           rec == Recognized(list, SupportedCompressions)
           r == negotiated.val.compression
       IN  /\ r = Ok(None) <=> Len(list) = 0
           /\ rec # {} => r = Ok(Some(list[First(rec)]))
           /\ ~r.ok <=> (Len(list) > 0 /\ rec = {})
           /\ ~r.ok => r = Err([name |-> "NoCommonCompression"])

\* the empty list has negotiated to no compression
C10_Witness ==
    /\ negotiated.some
    /\ candidates.val.compressions = <<>>
    /\ negotiated.val.compression = Ok(None)

----------------------------------------------------------------------------
(* Further properties of the handshake and upgrade stages *)

Elements(list) == {list[i] : i \in 1..Len(list)}

\* C11: on a successful handshake the HelloAck written and the Ready returned
\* agree: the HelloAck echoes the Hello's flags, its encoding is that of
\* Ready's transport options and is both offered by the Hello and locally
\* supported, and its compression is that of Ready's transport options,
\* which is None or both offered and locally supported.
C11_HelloAckAgreesWithReady ==
    (handshakeResult.resolved /\ handshakeResult.out.ok)
    => LET ack == sent[Len(sent)]
           rdy == handshakeResult.out.val.ready
       IN  /\ Len(sent) = 2
           /\ ack.kind = "HelloAck"
           /\ ack.flags = HsFrame.flags
           /\ ack.encoding = rdy.transport_options.encoding
           /\ ack.encoding \in Elements(HsFrame.encodings) \cap SupportedEncodings
           /\ ack.compression = rdy.transport_options.compression
           /\ \/ ack.compression = None
              \/ /\ ack.compression.some
                 /\ ack.compression.val \in
                       Elements(HsFrame.compressions) \cap SupportedCompressions

\* a Hello with flags 1 was acknowledged with msgpack and gzip
C11_Witness ==
    /\ handshakeResult.resolved
    /\ handshakeResult.out.ok
    /\ HsFrame.flags = 1
    /\ sent[2].flags = 1
    /\ sent[2].encoding = "msgpack"
    /\ sent[2].compression = Some("gzip")
    /\ handshakeResult.out.val.ready.transport_options =
          [encoding |-> "msgpack", compression |-> Some("gzip")]

UpGotRequest ==
    /\ upItem.some /\ upItem.val.some /\ upItem.val.val.ok
    /\ upItem.val.val.val.kind = "UpgradeRequest"

\* C12: after reading UpgradeRequest the upgrade stage writes exactly one
\* UpgradeResponse and returns the stream, or fails with the error of that
\* write; it reads once and leaves the handshake frame unread.
C12_UpgradeOneReadOneWrite ==
    /\ upgradeReads <= 1
    /\ upgradeResult.resolved => upgradeReads = 1
    /\ pc \in {"upgrade_read", "upgrade_write", "upgrade_done"}
       => handshakeReads = 0 /\ hsItem = None
    /\ (UpGotRequest /\ upgradeResult.resolved)
       => /\ upWrite.some
          /\ upWrite.val.ok
             => /\ upgradeResult.out = Ok(TcpStream)
                /\ Len(sent) >= 1
                /\ sent[1] = [kind |-> "UpgradeResponse"]
                /\ \A k \in 2..Len(sent) : sent[k].kind # "UpgradeResponse"
          /\ ~upWrite.val.ok
             => /\ upgradeResult.out = Err(upWrite.val.err)
                /\ sent = <<>>

\* the upgrade is over, its one response written, and nothing more was read
C12_Witness ==
    /\ pc = "upgrade_done"
    /\ UpGotRequest
    /\ upgradeReads = 1
    /\ sent = <<[kind |-> "UpgradeResponse"]>>
    /\ upgradeResult = Resolved(Ok(TcpStream))
    /\ handshakeReads = 0

\* C13: when the first item read by the upgrade stage is not UpgradeRequest
\* the stage fails without writing and without reading again: another frame
\* gives InvalidUpgradeFrame carrying it, a read error gives that error, a
\* clean end gives TcpStreamClosed.
C13_UpgradeRefusals ==
    (upItem.some /\ ~UpGotRequest)
    => /\ upgradeReads = 1
       /\ upWrite = None
       /\ sent = <<>>
       /\ handshakeReads = 0
       /\ upgradeResult.resolved
       /\ upgradeResult.out =
             IF ~upItem.val.some THEN Err([name |-> "TcpStreamClosed"])
             ELSE IF ~upItem.val.val.ok THEN Err(upItem.val.val.err)
                  ELSE Err([name |-> "InvalidUpgradeFrame",
                            frame |-> upItem.val.val.val])

\* the read failed with a broken pipe and the stage failed with it
C13_Witness ==
    /\ upItem = Some(Some(Err([name |-> "Io", kind |-> "BrokenPipe"])))
    /\ upgradeResult = Resolved(Err([name |-> "Io", kind |-> "BrokenPipe"]))
    /\ sent = <<>>

\* C19: the Hello checks run in the order version, encoding, compression,
\* and the first that fails decides the error: with the right version, no
\* recognized encoding and a non-empty compression list with no recognized
\* candidate, the error is NoCommonEncoding; NoCommonCompression is reported
\* only when the version matches and an encoding was negotiated.
C19_FirstFailingCheckDecides ==
    (HsGotFrame /\ HsFrame.kind = "Hello" /\ handshakeResult.resolved
        /\ ~hsWrite.some)
    => LET error == handshakeResult.out.err.error
           encs == Recognized(HsFrame.encodings, SupportedEncodings)
           comps == Recognized(HsFrame.compressions, SupportedCompressions)
       IN  /\ HsFrame.version # VERSION => error.name = "UnsupportedVersion"
           /\ (HsFrame.version = VERSION /\ encs = {})
              => error = [name |-> "NoCommonEncoding"]
           /\ error.name = "NoCommonCompression"
              => /\ HsFrame.version = VERSION
                 /\ encs # {}
                 /\ Len(HsFrame.compressions) > 0
                 /\ comps = {}
           /\ (HsFrame.version = VERSION /\ encs # {})
              => error = [name |-> "NoCommonCompression"]

\* a Hello of the right version with neither a recognized encoding nor a
\* recognized compression was refused for its encodings
C19_Witness ==
    /\ HsGotFrame
    /\ HsFrame.kind = "Hello"
    /\ HsFrame.version = VERSION
    /\ HsFrame.encodings = <<"xml">>
    /\ HsFrame.compressions = <<"lz4">>
    /\ handshakeResult = Resolved(Err([error |-> [name |-> "NoCommonEncoding"],
                                       stream |-> Some(ReaderWriter)]))

\* C20: the ping_interval_ms advertised in the HelloAck is the whole number
\* of milliseconds of the ping_interval held in the Ready of the same
\* handshake.
C20_AdvertisedIntervalIsReadyInterval ==
    pending.some
    => pending.val.hello_ack.ping_interval_ms =
          as_millis(pending.val.ready.ping_interval)

----------------------------------------------------------------------------
(* Further properties of the steady-state dispatcher *)

\* C14: a Push given to handle_frame yields no response future and no
\* outbound frame, whether it decodes or not; request_handler.handle_push
\* is called with the decoded value once the push task has run and the
\* payload decoded, and is not called when it did not decode.
C14_PushIsFireAndForget ==
    /\ (lastReturn.some /\ lastReturn.val.frame.kind = "Push")
       => /\ lastReturn.val.future = None
          /\ Len(pushes) >= 1
          /\ pushes[Len(pushes)].push = lastReturn.val.frame
    /\ \A i \in TaskIds : tasks[i].request.kind = "Request"
    /\ \A c \in 1..Len(completed) : completed[c].task \in TaskIds
    /\ Len(tasks) + Len(pushes) <= dispatched
    /\ pc = "steady" => Len(sent) = 2
    /\ \A k \in 1..Len(pushes) :
          LET d == decode(pushes[k].push.payload) IN
          /\ pushes[k].push.kind = "Push"
          /\ pushes[k].state = "spawned" => pushes[k].call = None
          /\ pushes[k].state = "done"
             => pushes[k].call = IF d.ok THEN Some(d.val) ELSE None

\* two pushes have run, one that decoded and one that did not, and nothing
\* came back
C14_Witness ==
    /\ Len(pushes) = 2
    /\ pushes[1].push.payload = 0
    /\ pushes[1].state = "done"
    /\ pushes[1].call = None
    /\ pushes[2].push.payload = 2
    /\ pushes[2].state = "done"
    /\ pushes[2].call = Some(102)
    /\ lastReturn.val.future = None
    /\ tasks = <<>>
    /\ completed = <<>>

\* handle_frame has just been given an Error or a Response
IgnoredDispatch ==
    /\ dispatched' = dispatched + 1
    /\ lastReturn'.val.frame.kind \in {"Error", "Response"}

\* C15: an inbound Error or Response given to handle_frame is ignored:
\* handle_frame returns None, and the request futures, the push tasks, the
\* outputs and the frames written stay as they were.
C15_ErrorAndResponseIgnored ==
    [][IgnoredDispatch
         => /\ lastReturn'.val.future = None
            /\ tasks' = tasks
            /\ pushes' = pushes
            /\ completed' = completed
            /\ sent' = sent
            /\ pc' = pc]_vars

\* a Response was dispatched while a request was in flight, and that
\* request is all there is
C15_Witness ==
    /\ dispatched = 2
    /\ lastReturn.some
    /\ lastReturn.val.frame.kind = "Response"
    /\ lastReturn.val.future = None
    /\ Len(tasks) = 1
    /\ tasks[1].state = "awaiting"
    /\ pushes = <<>>
    /\ completed = <<>>

\* request future i has resolved to an error
RequestFailed(i) == tasks[i].out.resolved /\ ~tasks[i].out.out.ok

\* push task k has run and its payload did not decode
PushFailed(k) ==
    pushes[k].state = "done" /\ ~decode(pushes[k].push.payload).ok

SomeFailure ==
    \/ \E i \in TaskIds : RequestFailed(i)
    \/ \E k \in 1..Len(pushes) : PushFailed(k)

\* C16: after a decode or encode failure of a Request, or a decode failure
\* of a Push, the connection is still in its steady state and the dispatcher
\* still takes frames; every request future can still go on, and every one
\* that has resolved has exactly one output, a Response or an error with its
\* own sequence id.
C16_FailuresAreLocal ==
    SomeFailure
    => /\ pc = "steady"
       /\ dispatched < MaxFrames => ENABLED HandleFrame
       /\ \A k \in 1..Len(pushes) :
             pushes[k].state = "spawned" => ENABLED RunPush(k)
       /\ \A j \in TaskIds :
             /\ tasks[j].state = "created" => ENABLED PollRequest(j)
             /\ tasks[j].state = "awaiting" => ENABLED HandlerReturns(j)
             /\ tasks[j].state = "done"
                => /\ OutputsOf(j) = <<[task |-> j, out |-> tasks[j].out.out]>>
                   /\ IF tasks[j].out.out.ok
                      THEN tasks[j].out.out.val.sequence_id =
                              tasks[j].request.sequence_id
                      ELSE tasks[j].out.out.err.sequence_id =
                              tasks[j].request.sequence_id

\* the second request failed to decode while the first was in flight, and
\* the first then resolved to its own Response
C16_Witness ==
    /\ pc = "steady"
    /\ Len(tasks) = 2
    /\ tasks[2].overlapped
    /\ tasks[2].request.sequence_id = 7
    /\ tasks[1].request.sequence_id = 3
    /\ Len(completed) = 2
    /\ completed[1] = [task |-> 2,
                       out |-> Err([error |-> [name |-> "DecodeError"],
                                    sequence_id |-> 7])]
    /\ completed[2].task = 1
    /\ completed[2].out.ok
    /\ completed[2].out.val.sequence_id = 3

----------------------------------------------------------------------------
(* The pipeline of stages *)

UpgradeFailed == upgradeResult.resolved /\ ~upgradeResult.out.ok
HandshakeFailed == handshakeResult.resolved /\ ~handshakeResult.out.ok

\* C17: no frame is given to handle_frame before a successful handshake has
\* produced the Ready of the connection; the handshake runs only after a
\* successful upgrade; and a failed upgrade or handshake ends the connection
\* without the next stage running.
C17_StagesInOrder ==
    /\ (pc = "steady" \/ dispatched > 0 \/ Len(tasks) > 0 \/ Len(pushes) > 0)
       => /\ handshakeResult.resolved
          /\ handshakeResult.out.ok
          /\ ready = Some(handshakeResult.out.val.ready)
    /\ (pc \in {"handshake_read", "handshake_write", "handshake_done", "steady"}
           \/ handshakeReads > 0 \/ hsItem.some)
       => /\ upgradeResult.resolved
          /\ upgradeResult.out = Ok(TcpStream)
    /\ UpgradeFailed
       => /\ pc \in {"upgrade_done", "closed"}
          /\ handshakeReads = 0
          /\ ~handshakeResult.resolved
          /\ dispatched = 0
          /\ ready = None
    /\ HandshakeFailed
       => /\ pc \in {"handshake_done", "closed"}
          /\ dispatched = 0
          /\ ready = None
    /\ pc = "closed" => (UpgradeFailed \/ HandshakeFailed)

\* frames have been dispatched on a connection that upgraded and shook hands
C17_Witness ==
    /\ pc = "steady"
    /\ dispatched = 2
    /\ Len(tasks) = 1
    /\ Len(pushes) = 1
    /\ upgradeResult = Resolved(Ok(TcpStream))
    /\ handshakeResult.resolved
    /\ handshakeResult.out.ok
    /\ ready.some
    /\ ready.val.transport_options.encoding = "msgpack"

----------------------------------------------------------------------------
(* Resolution of request futures *)

\* every request future has at most one output, has exactly one once it is
\* done, and that output carries the sequence id of its request
OneOutcomeEach ==
    /\ Len(completed) <= Len(tasks)
    /\ \A i \in TaskIds :
          /\ Len(OutputsOf(i)) <= 1
          /\ tasks[i].state = "done" <=> Len(OutputsOf(i)) = 1
          /\ tasks[i].state = "done" <=> tasks[i].out.resolved
          /\ tasks[i].state = "done"
             => /\ OutputsOf(i)[1].out = tasks[i].out.out
                /\ IF tasks[i].out.out.ok
                   THEN /\ tasks[i].out.out.val.kind = "Response"
                        /\ tasks[i].out.out.val.sequence_id =
                              tasks[i].request.sequence_id
                   ELSE tasks[i].out.out.err.sequence_id =
                              tasks[i].request.sequence_id

\* C18: every Request given to handle_frame whose handler completes
\* eventually resolves, and resolves to exactly one outcome, a Response or
\* an error, carrying its sequence id; never to both and never twice.
C18_EveryRequestResolvesOnce ==
    /\ []OneOutcomeEach
    /\ \A i \in 1..MaxFrames :
          (i <= Len(tasks)) ~> (i <= Len(tasks) /\ tasks[i].state = "done")

\* two requests have resolved, one to a Response and one to an error
C18_Witness ==
    /\ Len(tasks) = 2
    /\ tasks[1].state = "done"
    /\ tasks[2].state = "done"
    /\ tasks[1].out.out.ok
    /\ ~tasks[2].out.out.ok
    /\ tasks[2].response = Some(100)
    /\ Len(completed) = 2

====
